---- MODULE Spec2Model ----
(***************************************************************************)
(* The Wavefront OBJ loader of the textured-object renderer:               *)
(*   obj::loadObjFile (objloader.cpp) - the line parser,                   *)
(*   loadObj / createObjects (object.cpp) - the vertex builder,            *)
(* and the image sequence of the renderer:                                 *)
(*   ImageCache (imagecache.cpp) - the texture of the current image,       *)
(*   initGL, preSync, postSyncPreDraw, keyboard (main.cpp) - its callers.  *)
(*                                                                         *)
(* Text is modelled as it is in the program: a string is a sequence of     *)
(* characters (one-character TLA+ strings), and every std::string_view     *)
(* operation the parser uses (find, substr, from_chars) is computed on     *)
(* that sequence.  A float is modelled by its value in tenths (1.f is 10,  *)
(* 0.5f is 5); the input lines carry at most one fractional digit.         *)
(***************************************************************************)
EXTENDS Integers, Sequences, FiniteSets, TLC

VARIABLES
    scenario,   \* which family of input lines the file is drawn from
    fileGood,   \* std::ifstream::good() after opening the file
    lines,      \* the lines std::getline has delivered so far, in order
    pc,         \* position of the load: open, read, build, done, failed, crashed
    model,      \* loadObjFile's local Model: positions, normals, uvs, faces
    obj,        \* loadObj's local `obj`: the Model loadObjFile returned, or NoModel
    faceNo,     \* number of faces the builder loop of loadObj has consumed
    vertices,   \* loadObj's local std::vector<Vertex>
    what,       \* the message of the std::runtime_error thrown, or NoError
    log,        \* the sgct::Log::Error lines written
    result,     \* what createObjects returned, or NoResult
    streamBad,  \* the stream's badbit: a read of the open file failed
    report,     \* the outcome of the corner scan of loadObj, or NoReport
    earlier,    \* what an earlier load of the same file read and returned, or NoLoad
    frame,      \* position of the render loop: init, events, synced
    currentImage,      \* main.cpp: uint32_t currentImage
    playingImages,     \* main.cpp: bool playingImages
    useSpoutTextures,  \* main.cpp: bool useSpoutTextures
    objects,           \* main.cpp: std::vector<Object> objects, the ImageCache of each
    textureManager     \* sgct::TextureManager: the textures alive and the next name

\* the state of the image sequence
imageVars == <<frame, currentImage, playingImages, useSpoutTextures, objects, textureManager>>

\* the state of the loads
loadVars == <<scenario, fileGood, lines, pc, model, obj, faceNo, vertices, what, log, result,
              streamBad, report, earlier>>

vars == <<scenario, fileGood, lines, pc, model, obj, faceNo, vertices, what, log, result,
          streamBad, report, earlier, imageVars>>

-----------------------------------------------------------------------------
(* Characters and numbers                                                  *)

Digit == {"0", "1", "2", "3", "4", "5", "6", "7", "8", "9"}

DigitVal(c) ==
    CASE c = "0" -> 0 [] c = "1" -> 1 [] c = "2" -> 2 [] c = "3" -> 3
      [] c = "4" -> 4 [] c = "5" -> 5 [] c = "6" -> 6 [] c = "7" -> 7
      [] c = "8" -> 8 [] c = "9" -> 9

\* size_t arithmetic wraps.  The model checker's integers are 32 bits wide, so
\* the wrap is computed modulo 2^16 instead of 2^64; every identity the parser
\* relies on (npos + 1 = 0, a - npos - 1 = a) is the same for strings shorter
\* than 2^16 characters.
SizeMod == 2 ^ 16
npos == SizeMod - 1
SzAdd(a, b) == (a + b) % SizeMod
SzSub(a, b) == (a + SizeMod - b) % SizeMod

\* std::string_view::find(ch, pos): the 0-based offset of the first ch at or
\* after pos, or npos.
Find(s, ch, pos) ==
    LET hits == {i \in 1..Len(s) : i > pos /\ s[i] = ch}
    IN IF hits = {} THEN npos
       ELSE (CHOOSE i \in hits : \A j \in hits : i <= j) - 1

\* std::string_view::substr(pos, count): the characters [pos, pos + rcount),
\* rcount = min(count, size - pos).  Every call of the parser has pos <= size.
Substr(s, pos, count) ==
    LET rcount == IF count > Len(s) - pos THEN Len(s) - pos ELSE count
    IN SubSeq(s, pos + 1, pos + rcount)

\* the length of the longest prefix of s made of decimal digits
RECURSIVE DigitRun(_)
DigitRun(s) ==
    IF s # <<>> /\ Head(s) \in Digit THEN 1 + DigitRun(Tail(s)) ELSE 0

\* the value of a sequence of decimal digits
RECURSIVE DecimalValue(_)
DecimalValue(ds) ==
    IF ds = <<>> THEN 0
    ELSE 10 * DecimalValue(SubSeq(ds, 1, Len(ds) - 1)) + DigitVal(ds[Len(ds)])

\* std::from_chars(first, last, float&): parses the longest prefix that is a
\* decimal number (optional '-', digits, optional '.' and digits, at least one
\* digit).  ec is errc() when such a prefix exists, whatever follows it; ptr
\* is where the prefix ends.  The value is in tenths.  The input alphabet has
\* no exponent and no inf/nan spelling.
FromCharsFloat(str) ==
    LET neg   == str # <<>> /\ Head(str) = "-"
        body  == IF neg THEN Tail(str) ELSE str
        nInt  == DigitRun(body)
        rest  == SubSeq(body, nInt + 1, Len(body))
        nFrac == IF rest # <<>> /\ Head(rest) = "." THEN DigitRun(Tail(rest)) ELSE 0
        ok    == nInt + nFrac > 0
        mag   == 10 * DecimalValue(SubSeq(body, 1, nInt))
                 + (IF nFrac > 0 THEN DigitVal(rest[2]) ELSE 0)
        used  == (IF neg THEN 1 ELSE 0) + nInt
                 + (IF nFrac > 0 THEN 1 + nFrac
                    ELSE IF nInt > 0 /\ rest # <<>> /\ Head(rest) = "." THEN 1 ELSE 0)
    IN [ok |-> ok, value |-> IF ~ok THEN 0 ELSE IF neg THEN 0 - mag ELSE mag,
        ptr |-> IF ok THEN used ELSE 0]

\* uint32_t, kept at its width as two 16-bit halves (value = hi * 2^16 + lo)
U32(n) == [hi |-> n \div (2 ^ 16), lo |-> n % (2 ^ 16)]

\* x -= 1 on a uint32_t: 0 wraps to 0xFFFFFFFF
U32Dec(x) ==
    IF x.lo > 0 THEN [hi |-> x.hi, lo |-> x.lo - 1]
    ELSE IF x.hi > 0 THEN [hi |-> x.hi - 1, lo |-> 2 ^ 16 - 1]
    ELSE [hi |-> 2 ^ 16 - 1, lo |-> 2 ^ 16 - 1]

\* i < size for a uint32_t index and a container size the model can hold
U32Less(x, size) == x.hi = 0 /\ x.lo < size

\* std::from_chars(first, last, uint32_t&): the longest prefix of decimal
\* digits; no sign is accepted; ec is errc() when there is at least one digit.
\* The input lines carry indices of at most four digits, far below 2^32.
FromCharsU32(str) ==
    LET n == DigitRun(str)
    IN [ok |-> n > 0, value |-> U32(DecimalValue(SubSeq(str, 1, n))), ptr |-> n]

-----------------------------------------------------------------------------
(* objloader.cpp: the record readers                                       *)

NoError == [text |-> "", arg |-> <<>>]

\* std::runtime_error("Error loading line: " + std::string(line))
ErrorLoadingLine(line) == [text |-> "Error loading line: ", arg |-> line]

\* std::runtime_error("Error loading face")
ErrorLoadingFace == [text |-> "Error loading face", arg |-> <<>>]

\* std::runtime_error("Could not find file " + file); the file name is not modelled
CouldNotFindFile == [text |-> "Could not find file ", arg |-> <<>>]

IgnoredTokens ==
    { <<"m", "t", "l", "l", "i", "b">>, <<"o">>, <<"u", "s", "e", "m", "t", "l">>, <<"s">> }

tokenize(token) ==
    IF token = <<"v">> THEN "Vertex"
    ELSE IF token = <<"v", "n">> THEN "Normal"
    ELSE IF token = <<"v", "t">> THEN "UV"
    ELSE IF token = <<"f">> THEN "Face"
    ELSE IF token \in IgnoredTokens THEN "Ignored"
    ELSE "Unknown"

\* The three components of a `v` or `vn` payload, as readPosition and
\* readNormal cut and convert them (the two functions differ only in the
\* names of the fields they fill).
ReadTriple(line) ==
    LET firstSeparator  == Find(line, " ", 0)
        secondSeparator == Find(line, " ", SzAdd(firstSeparator, 1))
        xStr == Substr(line, 0, firstSeparator)
        yStr == Substr(line, SzAdd(firstSeparator, 1),
                       SzSub(SzSub(secondSeparator, firstSeparator), 1))
        zStr == Substr(line, SzAdd(secondSeparator, 1), npos)
        xRes == FromCharsFloat(xStr)
        yRes == FromCharsFloat(yStr)
        zRes == FromCharsFloat(zStr)
    IN [ok |-> xRes.ok /\ yRes.ok /\ zRes.ok,
        a |-> xRes.value, b |-> yRes.value, c |-> zRes.value]

\* readPosition without the test of the three error codes
readPositionUnchecked(line) ==
    LET r == ReadTriple(line)
    IN [ok |-> TRUE, value |-> [x |-> r.a, y |-> r.b, z |-> r.c]]

readPosition(line) ==
    LET r == ReadTriple(line)
    IN IF ~r.ok THEN [ok |-> FALSE, what |-> ErrorLoadingLine(line)]
       ELSE [ok |-> TRUE, value |-> [x |-> r.a, y |-> r.b, z |-> r.c]]

readNormal(line) ==
    LET r == ReadTriple(line)
    IN IF ~r.ok THEN [ok |-> FALSE, what |-> ErrorLoadingLine(line)]
       ELSE [ok |-> TRUE, value |-> [nx |-> r.a, ny |-> r.b, nz |-> r.c]]

readUV(line) ==
    LET separator == Find(line, " ", 0)
        uStr == Substr(line, 0, separator)
        vStr == Substr(line, SzAdd(separator, 1), npos)
        uRes == FromCharsFloat(uStr)
        vRes == FromCharsFloat(vStr)
    IN IF ~uRes.ok \/ ~vRes.ok THEN [ok |-> FALSE, what |-> ErrorLoadingLine(line)]
       ELSE [ok |-> TRUE, value |-> [u |-> uRes.value, v |-> vRes.value]]

\* std::optional<uint32_t>
NullOpt == [has |-> FALSE, value |-> U32(0)]
Some(x) == [has |-> TRUE, value |-> x]

\* The lambda `eat`: converts the characters before the first '/', reports in
\* `done` whether there was no '/', and leaves in `v` what follows the '/'.
eat(v) ==
    LET sep     == Find(v, "/", 0)
        str     == Substr(v, 0, sep)
        convRes == FromCharsU32(str)
    IN IF ~convRes.ok THEN [ok |-> FALSE, res |-> U32(0), done |-> TRUE, v |-> v]
       ELSE IF sep = npos THEN [ok |-> TRUE, res |-> convRes.value, done |-> TRUE, v |-> v]
       ELSE [ok |-> TRUE, res |-> convRes.value, done |-> FALSE,
             v |-> Substr(v, SzAdd(sep, 1), npos)]

\* readIndices without the `-= 1` on the texture-coordinate index
readIndicesOneBasedUV(v) ==
    LET e1 == eat(v)
        e2 == eat(e1.v)
        e3 == eat(e2.v)
    IN IF ~e1.ok THEN [ok |-> FALSE]
       ELSE IF e1.done
            THEN [ok |-> TRUE,
                  value |-> [vertex |-> U32Dec(e1.res), uv |-> NullOpt, normal |-> NullOpt]]
       ELSE IF ~e2.ok THEN [ok |-> FALSE]
       ELSE IF e2.done
            THEN [ok |-> TRUE,
                  value |-> [vertex |-> U32Dec(e1.res), uv |-> Some(e2.res),
                             normal |-> NullOpt]]
       ELSE IF ~e3.ok THEN [ok |-> FALSE]
       ELSE [ok |-> TRUE,
             value |-> [vertex |-> U32Dec(e1.res), uv |-> Some(e2.res),
                        normal |-> Some(U32Dec(e3.res))]]

\* The lambda `readIndices`: one corner specification to Face::Indices.
readIndices(v) ==
    LET e1 == eat(v)
        e2 == eat(e1.v)
        e3 == eat(e2.v)
    IN IF ~e1.ok THEN [ok |-> FALSE]
       ELSE IF e1.done
            THEN [ok |-> TRUE,
                  value |-> [vertex |-> U32Dec(e1.res), uv |-> NullOpt, normal |-> NullOpt]]
       ELSE IF ~e2.ok THEN [ok |-> FALSE]
       ELSE IF e2.done
            THEN [ok |-> TRUE,
                  value |-> [vertex |-> U32Dec(e1.res), uv |-> Some(U32Dec(e2.res)),
                             normal |-> NullOpt]]
       ELSE IF ~e3.ok THEN [ok |-> FALSE]
       ELSE [ok |-> TRUE,
             value |-> [vertex |-> U32Dec(e1.res), uv |-> Some(U32Dec(e2.res)),
                        normal |-> Some(U32Dec(e3.res))]]

\* std::optional<Face::Indices> without a value
NoIndices == [has |-> FALSE]

readFace(line) ==
    LET firstSep  == Find(line, " ", 0)
        secondSep == Find(line, " ", SzAdd(firstSep, 1))
        thirdSep  == Find(line, " ", SzAdd(secondSep, 1))
        hasFourth == thirdSep # npos
        i0Str == Substr(line, 0, firstSep)
        i1Str == Substr(line, SzAdd(firstSep, 1), SzSub(SzSub(secondSep, firstSep), 1))
        i2Str == IF hasFourth
                 THEN Substr(line, SzAdd(secondSep, 1), SzSub(SzSub(thirdSep, secondSep), 1))
                 ELSE Substr(line, SzAdd(secondSep, 1), npos)
        i3Str == IF hasFourth THEN Substr(line, SzAdd(thirdSep, 1), npos) ELSE <<>>
        i0 == readIndices(i0Str)
        i1 == readIndices(i1Str)
        i2 == readIndices(i2Str)
        i3 == readIndices(i3Str)
    IN IF ~i0.ok \/ ~i1.ok \/ ~i2.ok \/ (hasFourth /\ ~i3.ok)
       THEN [ok |-> FALSE, what |-> ErrorLoadingFace]
       ELSE [ok |-> TRUE,
             value |-> [i0 |-> i0.value, i1 |-> i1.value, i2 |-> i2.value,
                        i3 |-> IF hasFourth THEN [has |-> TRUE, value |-> i3.value]
                               ELSE NoIndices]]

-----------------------------------------------------------------------------
(* object.cpp: the vertex builder                                          *)

\* struct Vertex with nz initialised to 0.f like its neighbours
DefaultVertexFlat ==
    [x |-> 0, y |-> 0, z |-> 0, nx |-> 0, ny |-> 0, nz |-> 0, u |-> 0, v |-> 0]

\* struct Vertex with its default member initialisers (nz = 1.f)
DefaultVertex ==
    [x |-> 0, y |-> 0, z |-> 0, nx |-> 0, ny |-> 0, nz |-> 10, u |-> 0, v |-> 0]

\* std::numeric_limits<float>::max(), above every value an input line can hold
FloatMax == 2 ^ 30

\* what an out-of-bounds read of a float may deliver: any float, the largest
\* and the smallest finite ones among them
GarbageFloat == {0, 77, FloatMax, 0 - FloatMax}

\* every index of the corner is inside the table it is used on
IndicesInBounds(m, indices) ==
    /\ U32Less(indices.vertex, Len(m.positions))
    /\ indices.normal.has => U32Less(indices.normal.value, Len(m.normals))
    /\ indices.uv.has => U32Less(indices.uv.value, Len(m.uvs))

FaceInBounds(m, face) ==
    /\ IndicesInBounds(m, face.i0)
    /\ IndicesInBounds(m, face.i1)
    /\ IndicesInBounds(m, face.i2)
    /\ face.i3.has => IndicesInBounds(m, face.i3.value)

\* The lambda `makeVertex`.  std::vector::operator[] checks no bounds: a read
\* outside the table is undefined behaviour, and g is the float it delivers
\* when the process survives it.
makeVertex(m, indices, g) ==
    LET p == IF U32Less(indices.vertex, Len(m.positions))
             THEN m.positions[indices.vertex.lo + 1]
             ELSE [x |-> g, y |-> g, z |-> g]
        n == IF U32Less(indices.normal.value, Len(m.normals))
             THEN m.normals[indices.normal.value.lo + 1]
             ELSE [nx |-> g, ny |-> g, nz |-> g]
        t == IF U32Less(indices.uv.value, Len(m.uvs))
             THEN m.uvs[indices.uv.value.lo + 1]
             ELSE [u |-> g, v |-> g]
        r1 == [DefaultVertex EXCEPT !.x = p.x, !.y = p.y, !.z = p.z]
        r2 == IF indices.normal.has
              THEN [r1 EXCEPT !.nx = n.nx, !.ny = n.ny, !.nz = n.nz]
              ELSE r1
    IN IF indices.uv.has THEN [r2 EXCEPT !.u = t.u, !.v = t.v] ELSE r2

\* FaceVertices pushing the four corners of a quad once each, with no fan split
FaceVerticesNoSplit(m, face, g) ==
    <<makeVertex(m, face.i0, g), makeVertex(m, face.i1, g), makeVertex(m, face.i2, g)>>
    \o (IF face.i3.has THEN <<makeVertex(m, face.i3.value, g)>> ELSE <<>>)

\* FaceVertices splitting a quad along the other diagonal: (0,1,3) and (1,2,3)
FaceVerticesOtherDiagonal(m, face, g) ==
    IF face.i3.has
    THEN <<makeVertex(m, face.i0, g), makeVertex(m, face.i1, g),
           makeVertex(m, face.i3.value, g), makeVertex(m, face.i1, g),
           makeVertex(m, face.i2, g), makeVertex(m, face.i3.value, g)>>
    ELSE <<makeVertex(m, face.i0, g), makeVertex(m, face.i1, g), makeVertex(m, face.i2, g)>>

\* the vertices one iteration of the face loop pushes back
FaceVertices(m, face, g) ==
    <<makeVertex(m, face.i0, g), makeVertex(m, face.i1, g), makeVertex(m, face.i2, g)>>
    \o (IF face.i3.has
        THEN <<makeVertex(m, face.i0, g), makeVertex(m, face.i2, g),
               makeVertex(m, face.i3.value, g)>>
        ELSE <<>>)

\* createObjects: the vertex count and the data handed to glBufferData
createObjects(verts) == [nVertices |-> Len(verts), data |-> verts]

\* Vertex v = { 0.f, 0.f, 0.f, 0.f, 0.f, 0.f, u, v }
SentinelVertex(u, v) ==
    [x |-> 0, y |-> 0, z |-> 0, nx |-> 0, ny |-> 0, nz |-> 0, u |-> u, v |-> v]

\* the four candidates and their flags before the scan
ScanStart ==
    [v00 |-> SentinelVertex(FloatMax, FloatMax),         foundv00 |-> FALSE,
     v01 |-> SentinelVertex(FloatMax, 0 - FloatMax),     foundv01 |-> FALSE,
     v10 |-> SentinelVertex(0 - FloatMax, FloatMax),     foundv10 |-> FALSE,
     v11 |-> SentinelVertex(0 - FloatMax, 0 - FloatMax), foundv11 |-> FALSE]

\* the body of the scan loop with every candidate kept once it has been found
ScanVertexFirstOnly(st, vertex) ==
    LET a == ~st.foundv00 /\ vertex.u < st.v00.u /\ vertex.v < st.v00.v
        b == ~st.foundv01 /\ vertex.u < st.v01.u /\ vertex.v > st.v01.v
        c == ~st.foundv10 /\ vertex.u > st.v10.u /\ vertex.v < st.v10.v
        d == ~st.foundv11 /\ vertex.u > st.v11.u /\ vertex.v > st.v11.v
    IN [v00 |-> IF a THEN vertex ELSE st.v00, foundv00 |-> st.foundv00 \/ a,
        v01 |-> IF b THEN vertex ELSE st.v01, foundv01 |-> st.foundv01 \/ b,
        v10 |-> IF c THEN vertex ELSE st.v10, foundv10 |-> st.foundv10 \/ c,
        v11 |-> IF d THEN vertex ELSE st.v11, foundv11 |-> st.foundv11 \/ d]

\* the body of the scan loop with <= and >= for < and >
ScanVertexNonStrict(st, vertex) ==
    LET a == vertex.u <= st.v00.u /\ vertex.v <= st.v00.v
        b == vertex.u <= st.v01.u /\ vertex.v >= st.v01.v
        c == vertex.u >= st.v10.u /\ vertex.v <= st.v10.v
        d == vertex.u >= st.v11.u /\ vertex.v >= st.v11.v
    IN [v00 |-> IF a THEN vertex ELSE st.v00, foundv00 |-> st.foundv00 \/ a,
        v01 |-> IF b THEN vertex ELSE st.v01, foundv01 |-> st.foundv01 \/ b,
        v10 |-> IF c THEN vertex ELSE st.v10, foundv10 |-> st.foundv10 \/ c,
        v11 |-> IF d THEN vertex ELSE st.v11, foundv11 |-> st.foundv11 \/ d]

\* the body of `for (const Vertex& vertex : vertices)`: four independent tests
ScanVertex(st, vertex) ==
    LET a == vertex.u < st.v00.u /\ vertex.v < st.v00.v
        b == vertex.u < st.v01.u /\ vertex.v > st.v01.v
        c == vertex.u > st.v10.u /\ vertex.v < st.v10.v
        d == vertex.u > st.v11.u /\ vertex.v > st.v11.v
    IN [v00 |-> IF a THEN vertex ELSE st.v00, foundv00 |-> st.foundv00 \/ a,
        v01 |-> IF b THEN vertex ELSE st.v01, foundv01 |-> st.foundv01 \/ b,
        v10 |-> IF c THEN vertex ELSE st.v10, foundv10 |-> st.foundv10 \/ c,
        v11 |-> IF d THEN vertex ELSE st.v11, foundv11 |-> st.foundv11 \/ d]

\* the scan loop over the emitted vertices, first to last
RECURSIVE CornerScan(_, _)
CornerScan(st, verts) ==
    IF verts = <<>> THEN st ELSE CornerScan(ScanVertex(st, Head(verts)), Tail(verts))

\* foundv00 && foundv01 && foundv10 && foundv11
AllFound(st) == st.foundv00 /\ st.foundv01 /\ st.foundv10 /\ st.foundv11

\* a bool printed with %i
FlagText(b) == IF b THEN "1" ELSE "0"

\* Log::Error("Error finding corner vertices %i %i %i %i", ...)
ErrorFindingCorners(st) ==
    [text |-> "Error finding corner vertices ",
     arg |-> <<FlagText(st.foundv00), " ", FlagText(st.foundv01), " ",
               FlagText(st.foundv10), " ", FlagText(st.foundv11)>>]

\* no corner scan was asked for
NoReport == [requested |-> FALSE]

\* CornerReport writing the LL, UL, LR and UR lines from whatever the scan
\* holds, found or not
CornerReportBestEffort(verts) ==
    [requested |-> TRUE, reported |-> TRUE] @@ CornerScan(ScanStart, verts)

\* the outcome of `if (printCornerVertices) { ... }`: `reported` tells that
\* the LL, UL, LR and UR lines were written with Log::Info, from v00, v01,
\* v10 and v11
CornerReport(verts) ==
    LET st == CornerScan(ScanStart, verts)
    IN [requested |-> TRUE, reported |-> AllFound(st)] @@ st

-----------------------------------------------------------------------------
(* The input: the lines std::getline delivers                              *)

RECURSIVE Join(_, _)
Join(fields, ch) ==
    IF Len(fields) = 0 THEN <<>>
    ELSE IF Len(fields) = 1 THEN fields[1]
    ELSE fields[1] \o <<ch>> \o Join(Tail(fields), ch)

Words(fields) == Join(fields, " ")
Corner(fields) == Join(fields, "/")

c0 == <<"0">>
c1 == <<"1">>
c2 == <<"2">>
c3 == <<"3">>
cHalf == <<"0", ".", "5">>
cFifth == <<"0", ".", "2">>
cX == <<"x">>
cNeg1 == <<"-", "1">>
tV == <<"v">>
tVN == <<"v", "n">>
tVT == <<"v", "t">>
tF == <<"f">>

\* Every file starts with these lines: a comment, an ignored token, an unknown
\* token, two positions, two texture coordinates and one normal.
Header ==
    << <<"#", " ", "c">>,
       Words(<< <<"s">>, c1 >>),
       Words(<< <<"g">>, cX >>),
       Words(<<tV, c0, c0, c0>>),
       Words(<<tV, c1, c2, c3>>),
       Words(<<tVT, cHalf, cFifth>>),
       Words(<<tVT, c1, c0>>),
       Words(<<tVN, c1, c0, c0>>) >>

\* well-formed geometry, one malformed position and an empty line
MainLines ==
    { Words(<<tF, Corner(<<c1, c1>>), Corner(<<c2, c2>>), c1>>),
      Words(<<tF, Corner(<<c1, c2, c1>>), c2, Corner(<<c1, c1>>), Corner(<<c2, c1, c1>>)>>),
      Words(<<tV, c0, c1, c0>>),
      Words(<<tF, c3, c1, c2>>),
      Words(<<tVN, c0, c0, c1>>),
      Words(<<tF, Corner(<<c1, c1, c2>>), c2, c1>>),
      Words(<<tV, c0, cX, c0>>),
      <<>> }

\* corner indices that are zero, negative, out of range or left empty
IndexLines ==
    { Words(<<tF, c1, c2, c1>>),
      Words(<<tF, c0, c1, c1>>),
      Words(<<tF, c1, Corner(<<c1, c0>>), c1>>),
      Words(<<tF, c1, c1, Corner(<<c1, c1, c0>>)>>),
      Words(<<tF, cNeg1, c1, c1>>),
      Words(<<tF, c1, c3, c1>>),
      Words(<<tF, Corner(<<c1, c3>>), c1, c1>>),
      Words(<<tF, c1, c1, c1, Corner(<<c1, c1, c2>>)>>),
      Words(<<tF, Corner(<<c1, <<>>, c1>>), Corner(<<c2, <<>>, c1>>), Corner(<<c1, <<>>, c1>>)>>),
      Words(<<tV, c0, c1, c0>>) }

\* numeric fields that are no number, or a number followed by other characters
NumericLines ==
    { Words(<<tV, c0, cX, c0>>),
      Words(<<tVN, cX, c0, c0>>),
      Words(<<tVT, cHalf, cX>>),
      Words(<<tF, c1, cX, c1>>),
      Words(<<tF, c1, c2, Corner(<<c1, cX>>)>>),
      Words(<<tV, <<"1", ".", "0", "a", "b", "c">>, c0, c0>>),
      Words(<<tVT, cHalf, <<"1", "z">> >>),
      Words(<<tVN, c0, c0, <<"1", "q">> >>),
      Words(<<tF, c1, <<"3", "x">>, c1>>),
      Words(<<tF, c1, c2, c1>>),
      Words(<<tV, c0, c1, c0>>) }

cM == <<"m">>
cA == <<"a">>

\* every kind of line: unknown and ignored tokens, a blank line, a comment
\* that holds a record, the four records and a malformed one
LayoutLines ==
    { Words(<< <<"g">>, cX >>),
      Words(<< <<"o">>, cA >>),
      Words(<< <<"u", "s", "e", "m", "t", "l">>, cM >>),
      Words(<< <<"m", "t", "l", "l", "i", "b">>, cM >>),
      <<>>,
      Words(<< <<"#">>, tV, c1, c1, c1 >>),
      Words(<<tV, c0, c1, c0>>),
      Words(<<tVT, c1, c1>>),
      Words(<<tVN, c0, c0, c1>>),
      Words(<<tF, Corner(<<c3, c2, c1>>), c1, c2>>),
      Words(<<tVT, cX, c1>>) }

\* records with too few or too many fields, and records whose token is set
\* off by a tab or preceded by a space
ShapeLines ==
    { Words(<<tF, c1, c2>>),
      Words(<<tF, c1, c2, c1, c2, c1>>),
      Words(<<tF, c3>>),
      Words(<<tV, c1, c2>>),
      Words(<<tV, c1, c2, c3, c0>>),
      Words(<<tVN, c0, c1>>),
      Words(<<tVT, c1>>),
      Words(<<tVT, c1, c0, c1>>),
      Words(<< <<>>, tV, c1, c1, c1 >>),
      Join(<<tV, c1, c1, c1>>, "\t"),
      Words(<<tV, cX>>) }

\* faces whose texture coordinates are all inside or all outside the table,
\* one more texture coordinate and a malformed position
CornerLines ==
    { Words(<<tF, Corner(<<c1, c3>>), Corner(<<c1, c3>>), Corner(<<c1, c3>>)>>),
      Words(<<tF, Corner(<<c1, c1>>), Corner(<<c2, c2>>), c1>>),
      Words(<<tVT, c1, c1>>),
      Words(<<tV, c0, cX, c0>>) }

ScenarioLines(sc) ==
    CASE sc = "main" -> MainLines
      [] sc = "index" -> IndexLines
      [] sc = "numeric" -> NumericLines
      [] sc = "layout" -> LayoutLines
      [] sc = "shape" -> ShapeLines
      [] sc = "corners" -> CornerLines

\* every line an input file of the model can hold
AllLines ==
    {Header[i] : i \in 1..Len(Header)}
       \cup MainLines \cup IndexLines \cup NumericLines \cup LayoutLines \cup ShapeLines
       \cup CornerLines

\* the lines that may come after the header
MaxLines == 3

\* what std::getline may deliver after the lines read so far
NextLines(sc, read) ==
    IF Len(read) < Len(Header) THEN {Header[Len(read) + 1]}
    ELSE IF Len(read) < Len(Header) + MaxLines THEN ScenarioLines(sc)
    ELSE {}

\* no load of this file was made before
NoLoad == [loaded |-> FALSE]

\* the file has no line after those read so far
AtEndOfFile == earlier.loaded => Len(lines) = Len(earlier.lines)

\* the line std::getline delivers next: any line the file may hold, and the
\* line the earlier load read at this place when the file was loaded before
Delivered ==
    IF earlier.loaded
    THEN IF Len(lines) < Len(earlier.lines) THEN {earlier.lines[Len(lines) + 1]} ELSE {}
    ELSE NextLines(scenario, lines)

-----------------------------------------------------------------------------
(* The load: loadObj calling loadObjFile, the face loop, createObjects     *)

\* sgct::TextureManager with no texture loaded; texture names start at 1
NoTextures == [live |-> {}, next |-> 1]

EmptyModel == [positions |-> <<>>, normals |-> <<>>, uvs |-> <<>>, faces |-> <<>>]
NoModel == [returned |-> FALSE]
NoResult == [returned |-> FALSE]

InitLoad(sc) ==
    /\ scenario = sc
    /\ fileGood \in BOOLEAN
    /\ lines = <<>>
    /\ pc = "open"
    /\ model = EmptyModel
    /\ obj = NoModel
    /\ faceNo = 0
    /\ vertices = <<>>
    /\ what = NoError
    /\ log = <<>>
    /\ result = NoResult
    /\ streamBad = FALSE
    /\ report = NoReport
    /\ earlier = NoLoad
    /\ frame = "init"
    /\ currentImage = U32(0)
    /\ playingImages = FALSE
    /\ useSpoutTextures = FALSE
    /\ objects = <<>>
    /\ textureManager = NoTextures

Init == InitLoad("main")
InitIndex == InitLoad("index")
InitNumeric == InitLoad("numeric")
InitLayout == InitLoad("layout")
InitShape == InitLoad("shape")
InitCorners == InitLoad("corners")

\* line.substr(0, line.find(' '))
TokenStr(line) == Substr(line, 0, Find(line, " ", 0))

\* line.substr(line.find(' ') + 1)
Remainder(line) == Substr(line, SzAdd(Find(line, " ", 0), 1), npos)

\* LineClass without the test for a comment
LineClassNoComment(line) ==
    IF line = <<>> THEN "Skip"
    ELSE IF tokenize(TokenStr(line)) = "Ignored" THEN "Skip"
    ELSE tokenize(TokenStr(line))

\* how the loop body of loadObjFile treats a line
LineClass(line) ==
    IF line = <<>> THEN "Skip"
    ELSE IF line[1] = "#" THEN "Skip"
    ELSE IF tokenize(TokenStr(line)) = "Ignored" THEN "Skip"
    ELSE tokenize(TokenStr(line))

\* the reader the switch of loadObjFile calls, and the table it appends to
Decode(line) ==
    LET token == tokenize(TokenStr(line))
        remainder == Remainder(line)
    IN CASE token = "Vertex" -> [table |-> "positions"] @@ readPosition(remainder)
         [] token = "Normal" -> [table |-> "normals"] @@ readNormal(remainder)
         [] token = "UV"     -> [table |-> "uvs"] @@ readUV(remainder)
         [] token = "Face"   -> [table |-> "faces"] @@ readFace(remainder)

\* PushBack inserting the record at the front of its table
PushBackFront(m, d) ==
    CASE d.table = "positions" -> [m EXCEPT !.positions = <<d.value>> \o @]
      [] d.table = "normals"   -> [m EXCEPT !.normals = <<d.value>> \o @]
      [] d.table = "uvs"       -> [m EXCEPT !.uvs = <<d.value>> \o @]
      [] d.table = "faces"     -> [m EXCEPT !.faces = <<d.value>> \o @]

PushBack(m, d) ==
    CASE d.table = "positions" -> [m EXCEPT !.positions = Append(@, d.value)]
      [] d.table = "normals"   -> [m EXCEPT !.normals = Append(@, d.value)]
      [] d.table = "uvs"       -> [m EXCEPT !.uvs = Append(@, d.value)]
      [] d.table = "faces"     -> [m EXCEPT !.faces = Append(@, d.value)]

\* Log::Error("Unknown token: %s", tokenStr.data())
UnknownToken(line) == [text |-> "Unknown token: ", arg |-> TokenStr(line)]

\* what the loop body of loadObjFile does with a line, worked out once for
\* every line: its class and, for a record, what its reader gives
ParsedLine ==
    [l \in AllLines |->
       [class |-> LineClass(l),
        d     |-> IF LineClass(l) \in {"Vertex", "Normal", "UV", "Face"}
                  THEN Decode(l) ELSE [ok |-> TRUE]]]

\* The loop of loadObjFile over the lines ls, from the state st of the Model,
\* the log and the exception thrown.
RECURSIVE LoadFrom(_, _)
LoadFrom(st, ls) ==
    IF ls = <<>> \/ ~st.ok THEN st
    ELSE LET line == Head(ls)
             cls  == ParsedLine[line].class
             d    == ParsedLine[line].d
             next == CASE cls = "Skip" -> st
                       [] cls = "Unknown" -> [st EXCEPT !.log = Append(@, UnknownToken(line))]
                       [] OTHER ->
                            IF d.ok
                            THEN [st EXCEPT !.model = PushBack(@, d)]
                            ELSE [st EXCEPT !.ok = FALSE, !.what = d.what]
         IN LoadFrom(next, Tail(ls))

\* loadObjFile on an open file holding the lines ls
loadObjFile(ls) ==
    LoadFrom([ok |-> TRUE, model |-> EmptyModel, log |-> <<>>, what |-> NoError], ls)

\* the loop body of loadObjFile with the unknown token thrown instead of logged
UnknownLineAborts ==
    /\ pc = "read"
    /\ \E line \in Delivered :
          /\ LineClass(line) = "Unknown"
          /\ lines' = Append(lines, line)
          /\ what' = UnknownToken(line)
    /\ pc' = "failed"
    /\ UNCHANGED <<scenario, fileGood, model, obj, faceNo, vertices, log, result, streamBad, report, earlier, imageVars>>

\* std::ifstream f(file); !f.good(): throw
OpenFail ==
    /\ pc = "open" /\ ~fileGood
    /\ pc' = "failed"
    /\ what' = CouldNotFindFile
    /\ UNCHANGED <<scenario, fileGood, lines, model, obj, faceNo, vertices, log, result, streamBad, report, earlier, imageVars>>

Open ==
    /\ pc = "open" /\ fileGood
    /\ pc' = "read"
    /\ UNCHANGED <<scenario, fileGood, lines, model, obj, faceNo, vertices, what, log, result, streamBad, report, earlier, imageVars>>

\* an empty line, a comment or an ignored token: continue
SkipLine ==
    /\ pc = "read"
    /\ \E line \in Delivered :
          /\ LineClass(line) = "Skip"
          /\ lines' = Append(lines, line)
    /\ UNCHANGED <<scenario, fileGood, pc, model, obj, faceNo, vertices, what, log, result, streamBad, report, earlier, imageVars>>

\* an unknown token: Log::Error and continue
UnknownLine ==
    /\ pc = "read"
    /\ \E line \in Delivered :
          /\ LineClass(line) = "Unknown"
          /\ lines' = Append(lines, line)
          /\ log' = Append(log, [text |-> "Unknown token: ", arg |-> TokenStr(line)])
    /\ UNCHANGED <<scenario, fileGood, pc, model, obj, faceNo, vertices, what, result, streamBad, report, earlier, imageVars>>

\* a v, vn, vt or f line the reader converts: push_back on its table
DecodeLine ==
    /\ pc = "read"
    /\ \E line \in Delivered :
          /\ LineClass(line) \in {"Vertex", "Normal", "UV", "Face"}
          /\ Decode(line).ok
          /\ lines' = Append(lines, line)
          /\ model' = PushBack(model, Decode(line))
    /\ UNCHANGED <<scenario, fileGood, pc, obj, faceNo, vertices, what, log, result, streamBad, report, earlier, imageVars>>

\* a v, vn, vt or f line the reader throws on: the exception leaves
\* loadObjFile and loadObj
DecodeFail ==
    /\ pc = "read"
    /\ \E line \in Delivered :
          /\ LineClass(line) \in {"Vertex", "Normal", "UV", "Face"}
          /\ ~Decode(line).ok
          /\ lines' = Append(lines, line)
          /\ what' = Decode(line).what
    /\ pc' = "failed"
    /\ UNCHANGED <<scenario, fileGood, model, obj, faceNo, vertices, log, result, streamBad, report, earlier, imageVars>>

\* std::getline fails at the end of the file: return model
EndOfFile ==
    /\ pc = "read" /\ AtEndOfFile
    /\ pc' = "build"
    /\ obj' = [returned |-> TRUE] @@ model
    /\ UNCHANGED <<scenario, fileGood, lines, model, faceNo, vertices, what, log, result, streamBad, report, earlier, imageVars>>

\* std::getline fails because the read failed (the stream goes bad): the loop
\* ends the same way and the records read so far are returned.  A second load
\* of the same bytes is a load whose reads succeed.
ReadError ==
    /\ pc = "read" /\ ~earlier.loaded
    /\ streamBad' = TRUE
    /\ pc' = "build"
    /\ obj' = [returned |-> TRUE] @@ model
    /\ UNCHANGED <<scenario, fileGood, lines, model, faceNo, vertices, what, log, result, report, earlier, imageVars>>

\* BuildFace pushing only the vertices the buffer does not hold yet
BuildFaceShared ==
    /\ pc = "build" /\ faceNo < Len(obj.faces)
    /\ FaceInBounds(obj, obj.faces[faceNo + 1])
    /\ vertices' = vertices \o SelectSeq(FaceVertices(obj, obj.faces[faceNo + 1], 0),
                                         LAMBDA w : \A i \in 1..Len(vertices) : vertices[i] # w)
    /\ faceNo' = faceNo + 1
    /\ UNCHANGED <<scenario, fileGood, lines, pc, model, obj, what, log, result, streamBad, report, earlier, imageVars>>

\* one iteration of `for (const obj::Face& face : obj.faces)`, every index
\* inside its table
BuildFace ==
    /\ pc = "build" /\ faceNo < Len(obj.faces)
    /\ FaceInBounds(obj, obj.faces[faceNo + 1])
    /\ vertices' = vertices \o FaceVertices(obj, obj.faces[faceNo + 1], 0)
    /\ faceNo' = faceNo + 1
    /\ UNCHANGED <<scenario, fileGood, lines, pc, model, obj, what, log, result, streamBad, report, earlier, imageVars>>

\* the same iteration with an index outside its table: the read is undefined
\* behaviour; here it delivers some float and the loop goes on
BuildFaceWild ==
    /\ pc = "build" /\ faceNo < Len(obj.faces)
    /\ ~FaceInBounds(obj, obj.faces[faceNo + 1])
    /\ \E g \in GarbageFloat :
          vertices' = vertices \o FaceVertices(obj, obj.faces[faceNo + 1], g)
    /\ faceNo' = faceNo + 1
    /\ UNCHANGED <<scenario, fileGood, lines, pc, model, obj, what, log, result, streamBad, report, earlier, imageVars>>

\* ... and here the read faults and the process dies
BuildFaceCrash ==
    /\ pc = "build" /\ faceNo < Len(obj.faces)
    /\ ~FaceInBounds(obj, obj.faces[faceNo + 1])
    /\ pc' = "crashed"
    /\ UNCHANGED <<scenario, fileGood, lines, model, obj, faceNo, vertices, what, log, result, streamBad, report, earlier, imageVars>>

\* Finish handing the four candidates of the scan to createObjects when the
\* scan was asked for
FinishKeepsCorners ==
    /\ pc = "build" /\ faceNo = Len(obj.faces)
    /\ \E printCornerVertices \in BOOLEAN :
          /\ report' = IF printCornerVertices THEN CornerReport(vertices) ELSE NoReport
          /\ log' = IF printCornerVertices /\ ~AllFound(CornerScan(ScanStart, vertices))
                    THEN Append(log, ErrorFindingCorners(CornerScan(ScanStart, vertices)))
                    ELSE log
          /\ result' = [returned |-> TRUE] @@
                          createObjects(IF printCornerVertices
                                        THEN LET st == CornerScan(ScanStart, vertices)
                                             IN <<st.v00, st.v01, st.v10, st.v11>>
                                        ELSE vertices)
    /\ pc' = "done"
    /\ UNCHANGED <<scenario, fileGood, lines, model, obj, faceNo, vertices, what, streamBad, earlier, imageVars>>

\* the end of loadObj: the corner scan when printCornerVertices is set, then
\* return createObjects(vertices)
Finish ==
    /\ pc = "build" /\ faceNo = Len(obj.faces)
    /\ \E printCornerVertices \in BOOLEAN :
          /\ report' = IF printCornerVertices THEN CornerReport(vertices) ELSE NoReport
          /\ log' = IF printCornerVertices /\ ~AllFound(CornerScan(ScanStart, vertices))
                    THEN Append(log, ErrorFindingCorners(CornerScan(ScanStart, vertices)))
                    ELSE log
    /\ result' = [returned |-> TRUE] @@ createObjects(vertices)
    /\ pc' = "done"
    /\ UNCHANGED <<scenario, fileGood, lines, model, obj, faceNo, vertices, what, streamBad, earlier, imageVars>>

\* loadObj called once more for the same file, all of which the load before
\* has read: every local of loadObjFile and loadObj is constructed anew; the
\* log is the process's
LoadAgain ==
    /\ pc = "done" /\ ~streamBad /\ ~earlier.loaded
    /\ earlier' = [loaded |-> TRUE, lines |-> lines, obj |-> obj, vertices |-> vertices]
    /\ lines' = <<>>
    /\ pc' = "open"
    /\ model' = EmptyModel
    /\ obj' = NoModel
    /\ faceNo' = 0
    /\ vertices' = <<>>
    /\ what' = NoError
    /\ result' = NoResult
    /\ report' = NoReport
    /\ UNCHANGED <<scenario, fileGood, log, streamBad, imageVars>>

Next ==
    \/ OpenFail
    \/ Open
    \/ SkipLine
    \/ UnknownLine
    \/ DecodeLine
    \/ DecodeFail
    \/ EndOfFile
    \/ ReadError
    \/ BuildFace
    \/ BuildFaceWild
    \/ BuildFaceCrash
    \/ Finish

Spec == Init /\ [][Next]_vars
SpecIndex == InitIndex /\ [][Next]_vars
SpecNumeric == InitNumeric /\ [][Next]_vars
SpecLayout == InitLayout /\ [][Next]_vars
SpecShape == InitShape /\ [][Next]_vars
SpecCorners == InitCorners /\ [][Next]_vars

\* the loads of one file made by two objects that name it
NextReload ==
    \/ OpenFail
    \/ Open
    \/ SkipLine
    \/ UnknownLine
    \/ DecodeLine
    \/ DecodeFail
    \/ EndOfFile
    \/ ReadError
    \/ BuildFace
    \/ BuildFaceWild
    \/ BuildFaceCrash
    \/ Finish
    \/ LoadAgain

SpecReload == InitCorners /\ [][NextReload]_vars

-----------------------------------------------------------------------------
(* imagecache.cpp and main.cpp: the image sequence                         *)

\* the objects of the scene, the images one object has, the images the
\* sequence is advanced through, the textures loaded in one run
MaxObjects == 2
MaxPaths == 3
MaxImage == 3
MaxLoads == 4

\* x += 1 on a uint32_t: 0xFFFFFFFF wraps to 0
U32Inc(x) ==
    IF x.lo < SizeMod - 1 THEN [hi |-> x.hi, lo |-> x.lo + 1]
    ELSE IF x.hi < SizeMod - 1 THEN [hi |-> x.hi + 1, lo |-> 0]
    ELSE [hi |-> 0, lo |-> 0]

\* std::max on two unsigned int
U32Max(a, b) ==
    IF a.hi < b.hi \/ (a.hi = b.hi /\ a.lo < b.lo) THEN b ELSE a

\* the values of currentImage the model follows: up to MaxImage steps above
\* 0 and up to MaxImage steps below it
Near(x) ==
    \/ x.hi = 0 /\ x.lo <= MaxImage
    \/ x.hi = SizeMod - 1 /\ x.lo >= SizeMod - MaxImage

\* the path of image i of object k, as loadImagePaths collected it
ImagePath(k, i) == <<k, i>>

\* std::string(): what loadedImage returns when it has no image to name
NoImage == <<>>

\* ImageCache::ImageCache(paths) for object k with n images, the members at
\* their default initialisers: _currentImage = 0, _texture = 0
NewImageCache(k, n) ==
    [paths |-> [i \in 1..n |-> ImagePath(k, i)], currentImage |-> U32(0), texture |-> 0]

\* TextureManager::removeTexture(id)
removeTexture(tm, id) == [tm EXCEPT !.live = {t \in @ : t.id # id}]

\* TextureManager::loadTexture(path, true): a texture under a name no texture
\* had before; the name is tm.next
loadTexture(tm, path) ==
    [live |-> tm.live \cup {[id |-> tm.next, path |-> path]}, next |-> tm.next + 1]

\* setCurrentImage removing no texture before it loads the next one
setCurrentImageKeepsOld(cache, tm, idx) ==
    IF idx = cache.currentImage THEN [cache |-> cache, tm |-> tm]
    ELSE IF ~U32Less(idx, Len(cache.paths)) THEN [cache |-> cache, tm |-> tm]
    ELSE [cache |-> [cache EXCEPT !.currentImage = idx, !.texture = tm.next],
          tm |-> loadTexture(tm, cache.paths[idx.lo + 1])]

\* setCurrentImage with no test of the index against _paths.size(): an index
\* past the last path is stored and the texture of no image is loaded
setCurrentImageUnchecked(cache, tm, idx) ==
    IF idx = cache.currentImage THEN [cache |-> cache, tm |-> tm]
    ELSE LET tm1 == IF cache.texture > 0 THEN removeTexture(tm, cache.texture) ELSE tm
             path == IF U32Less(idx, Len(cache.paths)) THEN cache.paths[idx.lo + 1]
                     ELSE NoImage
         IN [cache |-> [cache EXCEPT !.currentImage = idx, !.texture = tm1.next],
             tm |-> loadTexture(tm1, path)]

\* ImageCache::setCurrentImage(currentImage) on the cache `cache` with the
\* texture manager in state tm: the cache and the texture manager after it
setCurrentImage(cache, tm, idx) ==
    IF idx = cache.currentImage THEN [cache |-> cache, tm |-> tm]
    ELSE IF ~U32Less(idx, Len(cache.paths)) THEN [cache |-> cache, tm |-> tm]
    ELSE LET tm1 == IF cache.texture > 0 THEN removeTexture(tm, cache.texture) ELSE tm
         IN [cache |-> [cache EXCEPT !.currentImage = idx, !.texture = tm1.next],
             tm |-> loadTexture(tm1, cache.paths[idx.lo + 1])]

\* ImageCache::texture()
texture(cache) == cache.texture

\* ImageCache::loadedImage()
loadedImage(cache) ==
    IF U32Less(cache.currentImage, Len(cache.paths))
    THEN cache.paths[cache.currentImage.lo + 1]
    ELSE NoImage

\* for (Object& obj : objects) { obj.imageCache.setCurrentImage(idx); } from
\* object k on
RECURSIVE SetAll(_, _, _, _)
SetAll(objs, tm, idx, k) ==
    IF k > Len(objs) THEN [objects |-> objs, tm |-> tm]
    ELSE LET r == setCurrentImage(objs[k], tm, idx)
         IN SetAll([objs EXCEPT ![k] = r.cache], r.tm, idx, k + 1)

\* the keys and key actions the keyboard callback is called with; "Other"
\* stands for W, S, A, D and F1, which touch no state of the image sequence
Keys == {"Space", "Up", "Down", "Key1", "Key2", "Other"}
KeyActions == {"Press", "Repeat", "Release"}

\* currentImage = std::max(currentImage - 1, 0u): the subtraction is made on
\* unsigned int
KeyDown(x) == U32Max(U32Dec(x), U32(0))

\* the scene before initGL: one to MaxObjects objects, each with the images
\* of its folder; no load is going on
InitImages ==
    /\ scenario = "none"
    /\ fileGood = TRUE
    /\ lines = <<>>
    /\ pc = "idle"
    /\ model = EmptyModel
    /\ obj = NoModel
    /\ faceNo = 0
    /\ vertices = <<>>
    /\ what = NoError
    /\ log = <<>>
    /\ result = NoResult
    /\ streamBad = FALSE
    /\ report = NoReport
    /\ earlier = NoLoad
    /\ frame = "init"
    /\ currentImage = U32(0)
    /\ playingImages = FALSE
    /\ useSpoutTextures = FALSE
    /\ objects \in UNION {{[k \in 1..n |-> NewImageCache(k, np[k])] :
                               np \in [1..n -> 0..MaxPaths]} : n \in 1..MaxObjects}
    /\ textureManager = NoTextures

\* initGL: every object is initialised (its mesh is loaded, which touches no
\* state of the image sequence) and its cache is set to image 0
initGL ==
    /\ frame = "init"
    /\ LET r == SetAll(objects, textureManager, U32(0), 1)
       IN /\ objects' = r.objects
          /\ textureManager' = r.tm
    /\ frame' = "events"
    /\ UNCHANGED <<currentImage, playingImages, useSpoutTextures, loadVars>>

\* preSync
preSync ==
    /\ frame = "events"
    /\ playingImages => Near(U32Inc(currentImage))
    /\ currentImage' = IF playingImages THEN U32Inc(currentImage) ELSE currentImage
    /\ frame' = "synced"
    /\ UNCHANGED <<playingImages, useSpoutTextures, objects, textureManager, loadVars>>

\* postSyncPreDraw
postSyncPreDraw ==
    /\ frame = "synced"
    /\ LET r == SetAll(objects, textureManager, currentImage, 1)
       IN /\ r.tm.next <= MaxLoads + 1
          /\ objects' = r.objects
          /\ textureManager' = r.tm
    /\ frame' = "events"
    /\ UNCHANGED <<currentImage, playingImages, useSpoutTextures, loadVars>>

\* keyboard(key, modifier, action, code)
keyboard ==
    /\ frame = "events"
    /\ \E key \in Keys, action \in KeyActions :
          /\ currentImage' =
                IF action = "Release" THEN currentImage
                ELSE CASE key = "Up" -> U32Inc(currentImage)
                       [] key = "Down" -> KeyDown(currentImage)
                       [] key \in {"Key1", "Key2"} -> U32(0)
                       [] OTHER -> currentImage
          /\ Near(currentImage')
          /\ playingImages' =
                IF action = "Release" THEN playingImages
                ELSE CASE key = "Space" -> ~playingImages
                       [] key \in {"Key1", "Key2"} -> FALSE
                       [] OTHER -> playingImages
          /\ useSpoutTextures' =
                IF action = "Release" THEN useSpoutTextures
                ELSE CASE key = "Key1" -> FALSE
                       [] key = "Key2" -> TRUE
                       [] OTHER -> useSpoutTextures
    /\ UNCHANGED <<frame, objects, textureManager, loadVars>>

NextImages ==
    \/ initGL
    \/ preSync
    \/ postSyncPreDraw
    \/ keyboard

SpecImages == InitImages /\ [][NextImages]_vars

-----------------------------------------------------------------------------
(* The file format as the specification describes it, read off the text of *)
(* the lines alone: the properties below compare the load with it.         *)

Min(a, b) == IF a < b THEN a ELSE b

\* the fields of s between the occurrences of ch
RECURSIVE Split(_, _)
Split(s, ch) ==
    IF \A i \in 1..Len(s) : s[i] # ch THEN <<s>>
    ELSE LET k == CHOOSE i \in 1..Len(s) : s[i] = ch /\ \A j \in 1..(i - 1) : s[j] # ch
         IN <<SubSeq(s, 1, k - 1)>> \o Split(SubSeq(s, k + 1, Len(s)), ch)

RECURSIVE NumberOf(_, _)
NumberOf(ds, acc) ==
    IF ds = <<>> THEN acc ELSE NumberOf(Tail(ds), 10 * acc + DigitVal(Head(ds)))

\* a field that is a decimal number and nothing else
IsDecimal(f) ==
    LET body == IF f # <<>> /\ f[1] = "-" THEN Tail(f) ELSE f
    IN /\ \A i \in 1..Len(body) : body[i] \in Digit \cup {"."}
       /\ Cardinality({i \in 1..Len(body) : body[i] = "."}) <= 1
       /\ \E i \in 1..Len(body) : body[i] \in Digit

\* its value in tenths
TenthsOf(f) ==
    LET neg   == f[1] = "-"
        parts == Split(IF neg THEN Tail(f) ELSE f, ".")
        mag   == 10 * NumberOf(parts[1], 0)
                 + (IF Len(parts) > 1 /\ parts[2] # <<>> THEN DigitVal(parts[2][1]) ELSE 0)
    IN IF neg THEN 0 - mag ELSE mag

\* a field that is an unsigned decimal integer and nothing else
IsIndex(f) == f # <<>> /\ \A i \in 1..Len(f) : f[i] \in Digit

\* the kind of a line, read off its text
KindOfText(line) ==
    IF line = <<>> THEN "blank"
    ELSE IF line[1] = "#" THEN "comment"
    ELSE LET token == Split(line, " ")[1]
         IN IF token = <<"v">> THEN "v"
            ELSE IF token = <<"v", "n">> THEN "vn"
            ELSE IF token = <<"v", "t">> THEN "vt"
            ELSE IF token = <<"f">> THEN "f"
            ELSE "other"

\* KindOfText and the fields behind the token, worked out once for every line
TextOfLine ==
    [l \in AllLines |->
       LET fs == Tail(Split(l, " "))
       IN [kind |-> KindOfText(l), fields |-> fs,
           parts |-> [j \in 1..Len(fs) |-> Split(fs[j], "/")]]]

LineKind(line) == TextOfLine[line].kind

\* the space-separated fields after the leading token
Fields(line) == TextOfLine[line].fields

\* each field split at '/'
Parts(line) == TextOfLine[line].parts

\* the lines of one kind, in file order
LinesOfKind(ls, kind) == SelectSeq(ls, LAMBDA l : LineKind(l) = kind)

\* a corner of the form a, a/b or a/b/c, every index a positive integer
PlainCorner(text) ==
    LET parts == Split(text, "/")
    IN /\ Len(parts) \in 1..3
       /\ \A i \in 1..Len(parts) : IsIndex(parts[i]) /\ NumberOf(parts[i], 0) >= 1

\* a line the format allows (corners in the forms a, a/b, a/b/c)
WellFormedText(line) ==
    LET kind == LineKind(line)
        fs   == Fields(line)
    IN CASE kind \in {"blank", "comment", "other"} -> TRUE
         [] kind \in {"v", "vn"} -> Len(fs) = 3 /\ \A i \in 1..3 : IsDecimal(fs[i])
         [] kind = "vt" -> Len(fs) = 2 /\ \A i \in 1..2 : IsDecimal(fs[i])
         [] kind = "f" -> Len(fs) \in {3, 4} /\ \A i \in 1..Len(fs) : PlainCorner(fs[i])

\* WellFormedText, worked out once for every line
WellFormedLines == {l \in AllLines : WellFormedText(l)}

WellFormedLine(line) == line \in WellFormedLines

\* the corner refers to records the file holds
CornerInRange(ls, text) ==
    LET parts == Split(text, "/")
    IN /\ NumberOf(parts[1], 0) <= Len(LinesOfKind(ls, "v"))
       /\ Len(parts) >= 2 => NumberOf(parts[2], 0) <= Len(LinesOfKind(ls, "vt"))
       /\ Len(parts) >= 3 => NumberOf(parts[3], 0) <= Len(LinesOfKind(ls, "vn"))

WellFormedInput(ls) ==
    /\ \A i \in 1..Len(ls) : WellFormedLine(ls[i])
    /\ \A i \in 1..Len(ls) :
          LineKind(ls[i]) = "f" =>
             \A j \in 1..Len(Fields(ls[i])) : CornerInRange(ls, Fields(ls[i])[j])

\* the number of face lines with n corners
FaceLinesWith(ls, n) ==
    Cardinality({i \in 1..Len(ls) : LineKind(ls[i]) = "f" /\ Len(Fields(ls[i])) = n})

\* the whole file has been read and a Model returned
FileRead == obj.returned

\* The records of a file: the fields of its v, vt and vn lines and, for each
\* f line, its corners, each split at '/'; attrOK tells that every v, vt and
\* vn line is well formed.
FileView(ls) ==
    LET vl == LinesOfKind(ls, "v")
        tl == LinesOfKind(ls, "vt")
        nl == LinesOfKind(ls, "vn")
        fl == LinesOfKind(ls, "f")
    IN [v  |-> [k \in 1..Len(vl) |-> Fields(vl[k])],
        vt |-> [k \in 1..Len(tl) |-> Fields(tl[k])],
        vn |-> [k \in 1..Len(nl) |-> Fields(nl[k])],
        f  |-> [k \in 1..Len(fl) |-> Parts(fl[k])],
        attrOK |-> \A i \in 1..Len(ls) :
                      LineKind(ls[i]) \in {"v", "vn", "vt"} => WellFormedLine(ls[i])]

\* every face line has three or four corners
ArityOK(V) == \A k \in DOMAIN V.f : Len(V.f[k]) \in {3, 4}

\* where the vertices of the k-th face start in the vertex sequence, when
\* every face line before it has three or four corners
RECURSIVE FaceOffset(_, _)
FaceOffset(V, k) ==
    IF k <= 1 THEN 0
    ELSE FaceOffset(V, k - 1) + (IF Len(V.f[k - 1]) = 4 THEN 6 ELSE 3)

\* the first vertex the builder emitted for corner j of the k-th face
EmittedVertex(V, k, j) == vertices[FaceOffset(V, k) + (IF j = 4 THEN 6 ELSE j)]

\* the Face::Indices the parser stored for corner j of the k-th face
StoredIndices(k, j) ==
    LET face == obj.faces[k]
    IN CASE j = 1 -> face.i0 [] j = 2 -> face.i1 [] j = 3 -> face.i2 [] j = 4 -> face.i3.value

\* the parts of a corner of the form a, a/b or a/b/c, every index a positive integer
PlainParts(parts) ==
    /\ Len(parts) \in 1..3
    /\ \A i \in 1..Len(parts) : IsIndex(parts[i]) /\ NumberOf(parts[i], 0) >= 1

\* a corner a, a/b or a/b/c that refers to well-formed records the file holds
Resolvable(V, parts) ==
    /\ V.attrOK
    /\ PlainParts(parts)
    /\ NumberOf(parts[1], 0) <= Len(V.v)
    /\ Len(parts) >= 2 => NumberOf(parts[2], 0) <= Len(V.vt)
    /\ Len(parts) >= 3 => NumberOf(parts[3], 0) <= Len(V.vn)

\* the vertex the format assigns to a resolvable corner: the a-th v line, the
\* b-th vt line, the c-th vn line, and the defaults (0,0,1) and (0,0) for
\* what the corner does not name
VertexOfCorner(V, parts) ==
    LET p == V.v[NumberOf(parts[1], 0)]
        t == V.vt[NumberOf(parts[2], 0)]
        n == V.vn[NumberOf(parts[3], 0)]
    IN [x |-> TenthsOf(p[1]), y |-> TenthsOf(p[2]), z |-> TenthsOf(p[3]),
        nx |-> IF Len(parts) >= 3 THEN TenthsOf(n[1]) ELSE 0,
        ny |-> IF Len(parts) >= 3 THEN TenthsOf(n[2]) ELSE 0,
        nz |-> IF Len(parts) >= 3 THEN TenthsOf(n[3]) ELSE 10,
        u |-> IF Len(parts) >= 2 THEN TenthsOf(t[1]) ELSE 0,
        v |-> IF Len(parts) >= 2 THEN TenthsOf(t[2]) ELSE 0]

-----------------------------------------------------------------------------
(* Properties                                                              *)

\* C1: the number of vertices loadObj hands to createObjects is 3 x (number
\* of three-corner face lines) + 6 x (number of four-corner face lines),
\* whenever every face line has three or four corners; and a well-formed
\* input is loaded to the end: it neither fails nor dies in the builder.
C1_VertexCount ==
    /\ (pc = "done" /\ \A i \in 1..Len(lines) :
                          LineKind(lines[i]) = "f" => Len(Fields(lines[i])) \in {3, 4}) =>
          /\ result.returned
          /\ result.nVertices = 3 * FaceLinesWith(lines, 3) + 6 * FaceLinesWith(lines, 4)
          /\ Len(result.data) = result.nVertices
    /\ (fileGood /\ \A i \in 1..Len(lines) : WellFormedLine(lines[i])) => pc # "failed"
    /\ (FileRead /\ WellFormedInput(lines)) => pc # "crashed"

\* a finished load of a well-formed file with a triangle and a quad
C1_Witness ==
    /\ pc = "done" /\ WellFormedInput(lines)
    /\ FaceLinesWith(lines, 3) >= 1 /\ FaceLinesWith(lines, 4) >= 1
    /\ result.nVertices >= 9

\* C2: a four-corner face with corners c0,c1,c2,c3 emits exactly the six
\* vertices c0,c1,c2,c0,c2,c3, in that order.
C2_QuadFan ==
    LET V == FileView(lines)
    IN \A k \in 1..faceNo :
          (ArityOK(V) /\ V.attrOK /\ Len(V.f[k]) = 4
             /\ \A j \in 1..4 : Resolvable(V, V.f[k][j])) =>
             SubSeq(vertices, FaceOffset(V, k) + 1, FaceOffset(V, k) + 6)
                = << VertexOfCorner(V, V.f[k][1]), VertexOfCorner(V, V.f[k][2]),
                     VertexOfCorner(V, V.f[k][3]), VertexOfCorner(V, V.f[k][1]),
                     VertexOfCorner(V, V.f[k][3]), VertexOfCorner(V, V.f[k][4]) >>

\* a finished load that emitted a quad whose four corners are four different vertices
C2_Witness ==
    /\ pc = "done"
    /\ LET V == FileView(lines)
       IN \E k \in 1..faceNo :
             /\ ArityOK(V) /\ Len(V.f[k]) = 4
             /\ \A j \in 1..4 : Resolvable(V, V.f[k][j])
             /\ Cardinality({VertexOfCorner(V, V.f[k][j]) : j \in 1..4}) = 4

\* C3: each index present on a corner a, a/b, a/b/c is stored as a-1, b-1,
\* c-1 (texcoord second, normal third), and the vertex emitted for the corner
\* holds entry a-1 of the positions, b-1 of the texcoords and c-1 of the
\* normals.
C3_IndexResolution ==
    LET V == FileView(lines)
    IN /\ (FileRead /\ ArityOK(V)) =>
             \A k \in 1..Len(obj.faces) : \A j \in 1..Len(V.f[k]) :
                LET parts == V.f[k][j]
                    ix    == StoredIndices(k, j)
                IN PlainParts(parts) =>
                      /\ ix.vertex = [hi |-> 0, lo |-> NumberOf(parts[1], 0) - 1]
                      /\ ix.uv.has = (Len(parts) >= 2)
                      /\ ix.uv.has =>
                            ix.uv.value = [hi |-> 0, lo |-> NumberOf(parts[2], 0) - 1]
                      /\ ix.normal.has = (Len(parts) >= 3)
                      /\ ix.normal.has =>
                            ix.normal.value = [hi |-> 0, lo |-> NumberOf(parts[3], 0) - 1]
       /\ \A k \in 1..faceNo : \A j \in 1..Min(Len(V.f[k]), 4) :
             LET parts == V.f[k][j]
                 e     == EmittedVertex(V, k, j)
                 want  == VertexOfCorner(V, parts)
             IN (ArityOK(V) /\ V.attrOK /\ Resolvable(V, parts)) =>
                   /\ <<e.x, e.y, e.z>> = <<want.x, want.y, want.z>>
                   /\ Len(parts) >= 2 => <<e.u, e.v>> = <<want.u, want.v>>
                   /\ Len(parts) >= 3 => <<e.nx, e.ny, e.nz>> = <<want.nx, want.ny, want.nz>>

\* a finished load that resolved a corner 1/b/c with b # c
C3_Witness ==
    /\ pc = "done"
    /\ LET V == FileView(lines)
       IN \E k \in 1..faceNo : \E j \in 1..Len(V.f[k]) :
             LET parts == V.f[k][j]
             IN /\ ArityOK(V) /\ Resolvable(V, parts)
                /\ Len(parts) = 3 /\ parts[2] # parts[3] /\ parts[1] = <<"1">>
                /\ EmittedVertex(V, k, j).u = 10

\* C6: a corner without a normal field (a, a/b) yields the normal (0,0,1), a
\* corner without a texcoord field (a) yields the texcoord (0,0); a field
\* that is present yields the default only when the table entry it names
\* holds that value.
C6_Defaults ==
    LET V == FileView(lines)
    IN \A k \in 1..faceNo : \A j \in 1..Min(Len(V.f[k]), 4) :
          LET parts == V.f[k][j]
              e     == EmittedVertex(V, k, j)
              t     == V.vt[NumberOf(parts[2], 0)]
              n     == V.vn[NumberOf(parts[3], 0)]
          IN (ArityOK(V) /\ PlainParts(parts)) =>
                /\ Len(parts) <= 2 => <<e.nx, e.ny, e.nz>> = <<0, 0, 10>>
                /\ Len(parts) = 1 => <<e.u, e.v>> = <<0, 0>>
                /\ (Resolvable(V, parts) /\ Len(parts) = 3
                      /\ <<e.nx, e.ny, e.nz>> = <<0, 0, 10>>)
                      => <<TenthsOf(n[1]), TenthsOf(n[2]), TenthsOf(n[3])>> = <<0, 0, 10>>
                /\ (Resolvable(V, parts) /\ Len(parts) >= 2 /\ <<e.u, e.v>> = <<0, 0>>)
                      => <<TenthsOf(t[1]), TenthsOf(t[2])>> = <<0, 0>>

\* a finished load with a corner `a`, a corner `a/b` with a non-default
\* texcoord, and a corner a/b/c whose normal entry is (0,0,1)
C6_Witness ==
    /\ pc = "done"
    /\ LET V == FileView(lines)
           built == {<<k, j>> \in (1..faceNo) \X (1..4) : j <= Len(V.f[k])}
       IN /\ ArityOK(V)
          /\ \E c \in built : Len(V.f[c[1]][c[2]]) = 1
          /\ \E c \in built :
                /\ Len(V.f[c[1]][c[2]]) = 2
                /\ Resolvable(V, V.f[c[1]][c[2]])
                /\ EmittedVertex(V, c[1], c[2]).u # 0
          /\ \E c \in built :
                /\ Len(V.f[c[1]][c[2]]) = 3
                /\ Resolvable(V, V.f[c[1]][c[2]])
                /\ EmittedVertex(V, c[1], c[2]).nz = 10

\* an index field that is zero, or a negative integer
ZeroOrNegative(f) ==
    \/ IsIndex(f) /\ NumberOf(f, 0) = 0
    \/ f # <<>> /\ f[1] = "-" /\ IsIndex(Tail(f))

\* a face line with a corner index that is zero or negative
HasZeroOrNegativeIndex(line) ==
    /\ LineKind(line) = "f"
    /\ \E i \in 1..Len(Fields(line)) :
          \E q \in 1..Len(Split(Fields(line)[i], "/")) :
             ZeroOrNegative(Split(Fields(line)[i], "/")[q])

\* C4: a corner index of 0 or a negative corner index makes the load fail;
\* the decrement never wraps into an index that is used for a table lookup.
\* (The load neither completes nor dies in the builder, and no vertex is
\* built from such a face.)
C4_ZeroIndexRejected ==
    (\E i \in 1..Len(lines) : HasZeroOrNegativeIndex(lines[i])) =>
       /\ pc \notin {"done", "crashed"}
       /\ \A k \in 1..faceNo : ~HasZeroOrNegativeIndex(LinesOfKind(lines, "f")[k])

\* the number of records of the table that part q of a corner indexes
TableSize(ls, q) ==
    Len(LinesOfKind(ls, CASE q = 1 -> "v" [] q = 2 -> "vt" [] q = 3 -> "vn"))

\* a face line with a positive corner index beyond the end of its table
HasIndexBeyondTable(ls, line) ==
    /\ LineKind(line) = "f"
    /\ \E i \in 1..Len(Fields(line)) :
          LET parts == Split(Fields(line)[i], "/")
          IN \E q \in 1..Len(parts) :
                q <= 3 /\ IsIndex(parts[q]) /\ NumberOf(parts[q], 0) > TableSize(ls, q)

\* C5: if a corner index is at or beyond the size of its table (sizes taken
\* after the whole file is parsed) the load fails and no element outside the
\* table is read.
C5_OutOfRangeRejected ==
    (FileRead /\ \E i \in 1..Len(lines) : HasIndexBeyondTable(lines, lines[i])) =>
       /\ pc \notin {"done", "crashed"}
       /\ \A k \in 1..faceNo : ~HasIndexBeyondTable(lines, LinesOfKind(lines, "f")[k])

\* a corner of the form a//c, both indices positive integers
SlashSlashCorner(text) ==
    LET parts == Split(text, "/")
    IN /\ Len(parts) = 3 /\ parts[2] = <<>>
       /\ IsIndex(parts[1]) /\ NumberOf(parts[1], 0) >= 1
       /\ IsIndex(parts[3]) /\ NumberOf(parts[3], 0) >= 1

\* a face line of three or four corners a, a/b, a/b/c or a//c, one at least a//c
FaceLineWithSlashSlash(line) ==
    /\ LineKind(line) = "f"
    /\ Len(Fields(line)) \in {3, 4}
    /\ \A i \in 1..Len(Fields(line)) :
          PlainCorner(Fields(line)[i]) \/ SlashSlashCorner(Fields(line)[i])
    /\ \E i \in 1..Len(Fields(line)) : SlashSlashCorner(Fields(line)[i])

\* C7: a corner a//c is accepted and parsed as vertex index a-1, no
\* texture-coordinate index, normal index c-1; it is never a parse failure.
C7_EmptyTexcoordAccepted ==
    /\ \A i \in 1..Len(lines) :
          FaceLineWithSlashSlash(lines[i]) => ~(pc = "failed" /\ i = Len(lines))
    /\ FileRead =>
          LET V == FileView(lines)
          IN \A k \in 1..Len(obj.faces) : \A j \in 1..Min(Len(V.f[k]), 4) :
                LET parts == V.f[k][j]
                    ix    == StoredIndices(k, j)
                IN (ArityOK(V) /\ SlashSlashCorner(Join(parts, "/"))) =>
                      /\ ix.vertex = [hi |-> 0, lo |-> NumberOf(parts[1], 0) - 1]
                      /\ ~ix.uv.has
                      /\ ix.normal = Some([hi |-> 0, lo |-> NumberOf(parts[3], 0) - 1])

\* a float field that does not start with a number
NoFloatAtStart(f) ==
    LET body == IF f # <<>> /\ f[1] = "-" THEN Tail(f) ELSE f
    IN ~(/\ body # <<>>
         /\ \/ body[1] \in Digit
            \/ body[1] = "." /\ Len(body) >= 2 /\ body[2] \in Digit)

\* an index field that does not start with a number
NoIndexAtStart(f) == ~(f # <<>> /\ f[1] \in Digit)

\* the numeric fields of a record: the first three of a v or vn line, the
\* first two of a vt line, the first three parts of the first four corners of
\* an f line (the empty middle part of a//c is no numeric field)
FloatFields(line) ==
    LET fs == Fields(line)
        n  == CASE LineKind(line) \in {"v", "vn"} -> 3 [] LineKind(line) = "vt" -> 2 [] OTHER -> 0
    IN {fs[i] : i \in 1..Min(Len(fs), n)}

IndexFields(line) ==
    LET fs == Fields(line)
    IN IF LineKind(line) # "f" THEN {}
       ELSE UNION { LET parts == Split(fs[i], "/")
                    IN {parts[q] : q \in {r \in 1..Min(Len(parts), 3) :
                                            ~(r = 2 /\ parts[2] = <<>> /\ Len(parts) >= 3)}}
                    : i \in 1..Min(Len(fs), 4) }

\* a v, vn, vt or f line with a numeric field that cannot be parsed as a number
HasUnparsableField(line) ==
    \/ \E f \in FloatFields(line) : NoFloatAtStart(f)
    \/ \E f \in IndexFields(line) : NoIndexAtStart(f)

\* C8: if a numeric field of a v, vn, vt or f line cannot be parsed as a
\* number, loadObjFile fails with an error at that line (no later line is
\* read) and returns no Model, whatever was decoded from earlier lines.
C8_UnparsableFieldFails ==
    \A i \in 1..Len(lines) :
       HasUnparsableField(lines[i]) =>
          /\ i = Len(lines)
          /\ pc = "failed"
          /\ what # NoError
          /\ obj = NoModel
          /\ result = NoResult
          /\ vertices = <<>>

\* a load that failed on an f line with an unparsable field after a third
\* position had been decoded from a line behind the header
C8_Witness ==
    /\ pc = "failed" /\ lines # <<>>
    /\ HasUnparsableField(lines[Len(lines)])
    /\ LineKind(lines[Len(lines)]) = "f"
    /\ Len(model.positions) >= 3
    /\ obj = NoModel

\* needle occurs in hay as a run of consecutive characters
Contains(hay, needle) ==
    \E i \in 0..(Len(hay) - Len(needle)) : SubSeq(hay, i + 1, i + Len(needle)) = needle

\* the text of a line after its leading token and the space behind it
Payload(line) == Join(Fields(line), " ")

\* C9: every parse failure caused by a malformed numeric field carries the
\* text of the offending line in its message, for all four record kinds.
\* (Stated for the text behind the leading token, which is the least the
\* message must hold to carry the line.)
C9_MessageCarriesLine ==
    (pc = "failed" /\ fileGood) =>
       /\ lines # <<>>
       /\ Contains(what.arg, Payload(lines[Len(lines)]))

\* a numeric field that starts with a number and goes on with other characters
HasTrailingCharacters(line) ==
    \/ \E f \in FloatFields(line) : ~NoFloatAtStart(f) /\ ~IsDecimal(f)
    \/ \E f \in IndexFields(line) : ~NoIndexAtStart(f) /\ ~IsIndex(f)

\* C10: a numeric field that starts with a valid number but has unconsumed
\* trailing characters is a parse failure: the load fails at that line.
C10_TrailingCharactersFail ==
    \A i \in 1..Len(lines) :
       HasTrailingCharacters(lines[i]) => (i = Len(lines) /\ pc = "failed")

\* the tokens of the material library, object name, material use and
\* smoothing group lines
StructuralTokens ==
    { <<"m", "t", "l", "l", "i", "b">>, <<"o">>, <<"u", "s", "e", "m", "t", "l">>, <<"s">> }

\* a line whose leading token is neither v, vn, vt, f nor a structural token
IsUnknownLine(line) ==
    /\ LineKind(line) = "other"
    /\ Split(line, " ")[1] \notin StructuralTokens

\* an empty line, a comment, or a line whose leading token is structural
IsSilentLine(line) ==
    \/ LineKind(line) \in {"blank", "comment"}
    \/ LineKind(line) = "other" /\ Split(line, " ")[1] \in StructuralTokens

\* the "Unknown token" diagnostics written so far
UnknownDiagnostics == SelectSeq(log, LAMBDA e : e.text = "Unknown token: ")

\* C11: an unknown-token line never changes a table and never aborts the
\* parse: the Model (and the failure, if any) is that of the same lines with
\* the unknown lines left out, and one diagnostic naming the token is written
\* for each unknown line.
C11_UnknownLineSkipped ==
    LET rest    == SelectSeq(lines, LAMBDA l : ~IsUnknownLine(l))
        L       == loadObjFile(rest)
        unknown == SelectSeq(lines, IsUnknownLine)
    IN fileGood =>
          /\ model = L.model
          /\ (pc = "failed") = ~L.ok
          /\ pc = "failed" => ~IsUnknownLine(lines[Len(lines)]) /\ what = L.what
          /\ Len(UnknownDiagnostics) = Len(unknown)
          /\ \A k \in 1..Len(unknown) :
                UnknownDiagnostics[k].arg = Split(unknown[k], " ")[1]

\* a finished load with an unknown line between a position and the face
\* that is built from it
C11_Witness ==
    /\ pc = "done" /\ Len(lines) = Len(Header) + 3
    /\ LineKind(lines[Len(Header) + 1]) = "v"
    /\ IsUnknownLine(lines[Len(Header) + 2])
    /\ LineKind(lines[Len(Header) + 3]) = "f"
    /\ Len(vertices) = 3 /\ vertices[1].y = 10

\* C12: empty lines, comments and lines with a structural token add no
\* record and write no diagnostic wherever they stand: the Model, the
\* diagnostics and the failure, if any, are those of the same lines with
\* these lines left out.
C12_SilentLinesSkipped ==
    LET rest == SelectSeq(lines, LAMBDA l : ~IsSilentLine(l))
        L    == loadObjFile(rest)
    IN fileGood =>
          /\ model = L.model
          /\ (pc = "failed") = ~L.ok
          /\ UnknownDiagnostics = L.log
          /\ \A k \in 1..Len(UnknownDiagnostics) :
                /\ UnknownDiagnostics[k].arg \notin StructuralTokens
                /\ UnknownDiagnostics[k].arg # <<>> => UnknownDiagnostics[k].arg[1] # "#"

\* a finished load with a comment holding a record, an empty line or a
\* structural line between a position and the face that is built from it
C12_Witness ==
    /\ pc = "done" /\ Len(lines) = Len(Header) + 3
    /\ LineKind(lines[Len(Header) + 1]) = "v"
    /\ IsSilentLine(lines[Len(Header) + 2])
    /\ LineKind(lines[Len(Header) + 2]) = "comment"
    /\ LineKind(lines[Len(Header) + 3]) = "f"
    /\ Len(vertices) = 3 /\ vertices[1].y = 10

\* C13: if the file cannot be opened, or a read of it fails, the load fails
\* with an error: no Model is returned, no line is read after the failure,
\* and no vertex buffer is created.
C13_UnreadableFileFails ==
    (~fileGood \/ streamBad) =>
       /\ obj = NoModel
       /\ vertices = <<>>
       /\ result = NoResult
       /\ pc \in {"open", "failed"}
       /\ pc = "failed" => what # NoError

\* a fatal condition: the file cannot be opened, a numeric field of a record
\* cannot be parsed, or a corner index lies beyond the end of its table
FatalCondition ==
    \/ ~fileGood /\ pc # "open"
    \/ \E i \in 1..Len(lines) : HasUnparsableField(lines[i])
    \/ FileRead /\ \E i \in 1..Len(lines) : HasIndexBeyondTable(lines, lines[i])

\* C14: on a fatal condition the load aborts as a whole: the parser returns
\* no Model when the condition is its own, and createObjects is never
\* reached, so that no vertex buffer of the faces before the failure is
\* returned.
C14_AllOrNothing ==
    FatalCondition =>
       /\ result = NoResult
       /\ pc # "done"
       /\ (~fileGood \/ \E i \in 1..Len(lines) : HasUnparsableField(lines[i])) => obj = NoModel

\* the vertices the format assigns to the k-th face: its corners 0,1,2 and,
\* for a quad, 0,2,3
ExpectedFace(V, k) ==
    << VertexOfCorner(V, V.f[k][1]), VertexOfCorner(V, V.f[k][2]),
       VertexOfCorner(V, V.f[k][3]) >>
    \o (IF Len(V.f[k]) = 4
        THEN << VertexOfCorner(V, V.f[k][1]), VertexOfCorner(V, V.f[k][3]),
                VertexOfCorner(V, V.f[k][4]) >>
        ELSE <<>>)

\* the vertices of the first n faces, one face after the other
RECURSIVE ExpectedVertices(_, _)
ExpectedVertices(V, n) ==
    IF n = 0 THEN <<>> ELSE ExpectedVertices(V, n - 1) \o ExpectedFace(V, n)

\* C15: the emitted vertices are the vertices of the face lines, face after
\* face in file order, a triangle giving its corners 0,1,2 in the order
\* written; nothing is shared, left out or reordered across faces.
C15_FaceOrder ==
    LET V == FileView(lines)
    IN (/\ ArityOK(V) /\ V.attrOK
        /\ \A k \in 1..faceNo : \A j \in 1..Len(V.f[k]) : Resolvable(V, V.f[k][j])) =>
          vertices = ExpectedVertices(V, faceNo)

\* a finished load of two equal triangle lines whose three corners differ:
\* each line has its own three vertices in the buffer
C15_Witness ==
    /\ pc = "done" /\ faceNo = 2
    /\ LET V == FileView(lines)
       IN /\ ArityOK(V) /\ V.attrOK
          /\ \A k \in 1..2 : \A j \in 1..Len(V.f[k]) : Resolvable(V, V.f[k][j])
          /\ V.f[1] = V.f[2] /\ Len(V.f[1]) = 3
    /\ Len(vertices) = 6
    /\ Cardinality({vertices[1], vertices[2], vertices[3]}) = 3
    /\ SubSeq(vertices, 1, 3) = SubSeq(vertices, 4, 6)

\* the f line the k-th Face record was decoded from
FaceLineOf(k) == LinesOfKind(lines, "f")[k]

\* C16: every Face record of the Model comes from an f line with exactly
\* three or exactly four corner specifications; a line with one, two, five
\* or more is never accepted as a triangle or a quad.
C16_FaceArity ==
    \A k \in 1..Len(model.faces) : Len(Fields(FaceLineOf(k))) \in {3, 4}

\* the components the fields of a record line give, in order
Components(line) == [i \in 1..Len(Fields(line)) |-> TenthsOf(Fields(line)[i])]

\* C17: every Position and every Normal comes from a line of exactly three
\* numeric fields, which are its components in order, and every TexCoord
\* from a line of exactly two: no field is used twice and none is dropped.
C17_RecordArity ==
    /\ \A k \in 1..Len(model.positions) :
          LET line == LinesOfKind(lines, "v")[k]
              p    == model.positions[k]
          IN /\ Len(Fields(line)) = 3
             /\ (\A i \in 1..3 : IsDecimal(Fields(line)[i])) =>
                   <<p.x, p.y, p.z>> = Components(line)
    /\ \A k \in 1..Len(model.normals) :
          LET line == LinesOfKind(lines, "vn")[k]
              n    == model.normals[k]
          IN /\ Len(Fields(line)) = 3
             /\ (\A i \in 1..3 : IsDecimal(Fields(line)[i])) =>
                   <<n.nx, n.ny, n.nz>> = Components(line)
    /\ \A k \in 1..Len(model.uvs) :
          LET line == LinesOfKind(lines, "vt")[k]
              t    == model.uvs[k]
          IN /\ Len(Fields(line)) = 2
             /\ (\A i \in 1..2 : IsDecimal(Fields(line)[i])) =>
                   <<t.u, t.v>> = Components(line)

\* a space or a tab
Whitespace == {" ", "\t"}

\* the first whitespace-delimited token of a line: the characters from the
\* first one that is no whitespace up to the next whitespace
RECURSIVE FirstToken(_)
FirstToken(line) ==
    IF line = <<>> THEN <<>>
    ELSE IF Head(line) \in Whitespace THEN FirstToken(Tail(line))
    ELSE LET ws == {i \in 1..Len(line) : line[i] \in Whitespace}
         IN IF ws = {} THEN line
            ELSE SubSeq(line, 1, (CHOOSE i \in ws : \A j \in ws : i <= j) - 1)

\* the lines whose first whitespace-delimited token is tok (comments apart)
LinesWithToken(ls, tok) ==
    SelectSeq(ls, LAMBDA l : l # <<>> /\ l[1] # "#" /\ FirstToken(l) = tok)

\* C19: a line whose first whitespace-delimited token is v, vn, vt or f is
\* decoded as a Position, Normal, TexCoord or Face record, also when
\* whitespace precedes the token or a tab sets it off: while the load has
\* not failed, each table holds one record per such line.
C19_WhitespaceToken ==
    pc # "failed" =>
       /\ Len(model.positions) = Len(LinesWithToken(lines, <<"v">>))
       /\ Len(model.normals) = Len(LinesWithToken(lines, <<"v", "n">>))
       /\ Len(model.uvs) = Len(LinesWithToken(lines, <<"v", "t">>))
       /\ Len(model.faces) = Len(LinesWithToken(lines, <<"f">>))

\* the Face::Indices the format assigns to a corner a, a/b or a/b/c
IndicesOfParts(parts) ==
    [vertex |-> [hi |-> 0, lo |-> NumberOf(parts[1], 0) - 1],
     uv     |-> IF Len(parts) >= 2
                THEN [has |-> TRUE, value |-> [hi |-> 0, lo |-> NumberOf(parts[2], 0) - 1]]
                ELSE [has |-> FALSE, value |-> [hi |-> 0, lo |-> 0]],
     normal |-> IF Len(parts) >= 3
                THEN [has |-> TRUE, value |-> [hi |-> 0, lo |-> NumberOf(parts[3], 0) - 1]]
                ELSE [has |-> FALSE, value |-> [hi |-> 0, lo |-> 0]]]

\* the lines the parser has decoded: all that were read, but for the line
\* it failed on
DecodedLines ==
    IF pc = "failed" /\ lines # <<>> THEN SubSeq(lines, 1, Len(lines) - 1) ELSE lines

\* C18: each decoded v, vn, vt or f line appends one record to its own table
\* and to no other: every table holds one record per decoded line of its
\* kind, and the k-th record of a table is the record of the k-th such line.
C18_OneRecordPerLine ==
    LET V == FileView(DecodedLines)
    IN /\ Len(model.positions) = Len(V.v)
       /\ Len(model.normals) = Len(V.vn)
       /\ Len(model.uvs) = Len(V.vt)
       /\ Len(model.faces) = Len(V.f)
       /\ \A k \in DOMAIN V.v :
             (Len(V.v[k]) = 3 /\ \A i \in 1..3 : IsDecimal(V.v[k][i])) =>
                model.positions[k] = [x |-> TenthsOf(V.v[k][1]), y |-> TenthsOf(V.v[k][2]),
                                      z |-> TenthsOf(V.v[k][3])]
       /\ \A k \in DOMAIN V.vn :
             (Len(V.vn[k]) = 3 /\ \A i \in 1..3 : IsDecimal(V.vn[k][i])) =>
                model.normals[k] = [nx |-> TenthsOf(V.vn[k][1]), ny |-> TenthsOf(V.vn[k][2]),
                                    nz |-> TenthsOf(V.vn[k][3])]
       /\ \A k \in DOMAIN V.vt :
             (Len(V.vt[k]) = 2 /\ \A i \in 1..2 : IsDecimal(V.vt[k][i])) =>
                model.uvs[k] = [u |-> TenthsOf(V.vt[k][1]), v |-> TenthsOf(V.vt[k][2])]
       /\ \A k \in DOMAIN V.f :
             (Len(V.f[k]) \in {3, 4} /\ \A j \in 1..Len(V.f[k]) : PlainParts(V.f[k][j])) =>
                model.faces[k] =
                   [i0 |-> IndicesOfParts(V.f[k][1]),
                    i1 |-> IndicesOfParts(V.f[k][2]),
                    i2 |-> IndicesOfParts(V.f[k][3]),
                    i3 |-> IF Len(V.f[k]) = 4
                           THEN [has |-> TRUE, value |-> IndicesOfParts(V.f[k][4])]
                           ELSE [has |-> FALSE]]

\* a finished load that decoded a third position, a third texture
\* coordinate and a face behind the header
C18_Witness ==
    /\ pc = "done"
    /\ Len(model.positions) = 3 /\ model.positions[3].y = 10
    /\ Len(model.uvs) = 3 /\ model.uvs[3].u = 10
    /\ Len(model.normals) = 1
    /\ Len(model.faces) = 1 /\ model.faces[1].i0.vertex.lo = 2

\* the corner report was asked for and the LL, UL, LR and UR lines were written
CornersReported == pc = "done" /\ report.requested /\ report.reported

\* the least and the greatest texture coordinates of the emitted vertices
MinU == CHOOSE m \in {vertices[i].u : i \in 1..Len(vertices)} :
           \A i \in 1..Len(vertices) : m <= vertices[i].u
MaxU == CHOOSE m \in {vertices[i].u : i \in 1..Len(vertices)} :
           \A i \in 1..Len(vertices) : m >= vertices[i].u
MinV == CHOOSE m \in {vertices[i].v : i \in 1..Len(vertices)} :
           \A i \in 1..Len(vertices) : m <= vertices[i].v
MaxV == CHOOSE m \in {vertices[i].v : i \in 1..Len(vertices)} :
           \A i \in 1..Len(vertices) : m >= vertices[i].v

\* C20 as stated: the reported LL vertex has the minimal u and the minimal v
\* of all emitted vertices, UL the minimal u and the maximal v, LR the
\* maximal u and the minimal v, UR the maximal u and the maximal v.
C20_ExtremalCorners ==
    CornersReported =>
       /\ report.v00.u = MinU /\ report.v00.v = MinV
       /\ report.v01.u = MinU /\ report.v01.v = MaxV
       /\ report.v10.u = MaxU /\ report.v10.v = MinV
       /\ report.v11.u = MaxU /\ report.v11.v = MaxV

\* C20, amended: each reported corner is an emitted vertex that no emitted
\* vertex lies beyond in both texture coordinates at once: none has both a
\* smaller u and a smaller v than LL, both a smaller u and a greater v than
\* UL, both a greater u and a smaller v than LR, both a greater u and a
\* greater v than UR.
C20_UnbeatenCorners ==
    CornersReported =>
       /\ \A c \in {report.v00, report.v01, report.v10, report.v11} :
             \E i \in 1..Len(vertices) : vertices[i] = c
       /\ \A i \in 1..Len(vertices) :
             /\ ~(vertices[i].u < report.v00.u /\ vertices[i].v < report.v00.v)
             /\ ~(vertices[i].u < report.v01.u /\ vertices[i].v > report.v01.v)
             /\ ~(vertices[i].u > report.v10.u /\ vertices[i].v < report.v10.v)
             /\ ~(vertices[i].u > report.v11.u /\ vertices[i].v > report.v11.v)

\* a report over vertices with three different texture coordinates in which
\* the scan replaced its first LL candidate and UL does not have the least u
C20_Witness ==
    /\ CornersReported
    /\ Cardinality({<<vertices[i].u, vertices[i].v>> : i \in 1..Len(vertices)}) >= 3
    /\ report.v00 # vertices[1]
    /\ report.v01.u # MinU

-----------------------------------------------------------------------------
(* The corner scan: its flags, its failure report, its effect on the buffer *)

\* the corner scan was asked for and the load has returned
ScanDone == pc = "done" /\ report.requested

\* some emitted vertex lies strictly inside both initial sentinel values of
\* the LL, UL, LR and UR search
ImprovesLL == \E i \in 1..Len(vertices) : vertices[i].u < FloatMax /\ vertices[i].v < FloatMax
ImprovesUL == \E i \in 1..Len(vertices) : vertices[i].u < FloatMax /\ vertices[i].v > 0 - FloatMax
ImprovesLR == \E i \in 1..Len(vertices) : vertices[i].u > 0 - FloatMax /\ vertices[i].v < FloatMax
ImprovesUR == \E i \in 1..Len(vertices) : vertices[i].u > 0 - FloatMax /\ vertices[i].v > 0 - FloatMax

\* C21: each of the four corner searches ends with its found flag set if and
\* only if at least one emitted vertex strictly improves both of that
\* search's initial sentinel values; with no vertex emitted all four flags
\* are false.
C21_FoundFlags ==
    ScanDone =>
       /\ report.foundv00 = ImprovesLL
       /\ report.foundv01 = ImprovesUL
       /\ report.foundv10 = ImprovesLR
       /\ report.foundv11 = ImprovesUR
       /\ vertices = <<>> =>
             ~(report.foundv00 \/ report.foundv01 \/ report.foundv10 \/ report.foundv11)

\* a scan over emitted vertices none of which is below the largest float in
\* u: the UR search succeeds, the LL search does not
C21_Witness ==
    /\ ScanDone
    /\ vertices # <<>>
    /\ report.foundv11 /\ ~report.foundv00
    /\ \A i \in 1..Len(vertices) : vertices[i].u = FloatMax

\* the corner scan ended with one of its four searches empty-handed
ScanMissed == ScanDone /\ ~AllFound(report)

\* C22: if any of the four corner searches finds no candidate, the scan logs
\* a failure carrying the four flags and writes no corner coordinates; no
\* exception is thrown and the load returns the vertex buffer built from all
\* emitted vertices.
C22_MissIsLoggedNotRaised ==
    ScanMissed =>
       /\ ~report.reported
       /\ log # <<>>
       /\ log[Len(log)] =
             [text |-> "Error finding corner vertices ",
              arg |-> <<FlagText(report.foundv00), " ", FlagText(report.foundv01), " ",
                        FlagText(report.foundv10), " ", FlagText(report.foundv11)>>]
       /\ what = NoError
       /\ result.returned /\ result.data = vertices /\ result.nVertices = Len(vertices)

\* a scan that missed two of its corners over a buffer of three vertices, and
\* the buffer was returned
C22_Witness ==
    /\ ScanMissed
    /\ Len(vertices) = 3
    /\ report.foundv00 /\ ~report.foundv01 /\ ~report.foundv10 /\ ~report.foundv11
    /\ result.returned

\* the number of vertices the face loop pushes for the faces fs
RECURSIVE PushedCount(_)
PushedCount(fs) ==
    IF fs = <<>> THEN 0
    ELSE (IF Head(fs).i3.has THEN 6 ELSE 3) + PushedCount(Tail(fs))

\* the vertices the face loop pushes for the faces fs of the Model m
RECURSIVE PushedVertices(_, _)
PushedVertices(m, fs) ==
    IF fs = <<>> THEN <<>>
    ELSE FaceVertices(m, Head(fs), 0) \o PushedVertices(m, Tail(fs))

\* C23: the corner scan never changes the vertex buffer: whether or not
\* printCornerVertices is set, createObjects receives the vertices the face
\* loop pushed, all of them and in their order.
C23_ScanLeavesBuffer ==
    pc = "done" =>
       /\ result.data = vertices
       /\ result.nVertices = Len(vertices)
       /\ Len(vertices) = PushedCount(obj.faces)
       /\ (\A k \in 1..Len(obj.faces) : FaceInBounds(obj, obj.faces[k])) =>
             vertices = PushedVertices(obj, obj.faces)

\* a scan that replaced its candidates ran over a buffer of two faces with
\* different texture coordinates, and the buffer was returned whole
C23_Witness ==
    /\ ScanDone /\ report.reported
    /\ Len(obj.faces) = 2 /\ Len(vertices) = 6
    /\ \A k \in 1..2 : FaceInBounds(obj, obj.faces[k])
    /\ Cardinality({<<vertices[i].u, vertices[i].v>> : i \in 1..Len(vertices)}) >= 3
    /\ result.nVertices = 6

-----------------------------------------------------------------------------
(* Two loads of the same bytes                                             *)

\* the file was loaded before and this load of the same bytes has returned
LoadedTwice == earlier.loaded /\ pc = "done"

\* C24: each load is independent and deterministic: a second load of the
\* same input bytes returns the same Model and the same vertex sequence as
\* the first.
C24_SameBytesSameLoad ==
    /\ (earlier.loaded /\ obj.returned) => obj = earlier.obj
    /\ LoadedTwice => vertices = earlier.vertices
    /\ earlier.loaded => pc # "crashed"

-----------------------------------------------------------------------------
(* The image cache and the keys that move through the images               *)

\* C25: for an ImageCache with at least one path, once setCurrentImage has
\* been called with an index in range - the first call setCurrentImage(0) of
\* initGL included - texture() is a non-zero texture, alive in the texture
\* manager and loaded from the path loadedImage() reports.
C25_TextureOfLoadedImage ==
    frame # "init" =>
       \A k \in DOMAIN objects :
          Len(objects[k].paths) >= 1 =>
             /\ texture(objects[k]) > 0
             /\ [id |-> texture(objects[k]), path |-> loadedImage(objects[k])]
                   \in textureManager.live

\* C26: a Down key never takes currentImage below zero and never wraps it:
\* the index stays among the values that increments from 0 reach.
C26_DownNeverWraps ==
    /\ currentImage.hi = 0 /\ currentImage.lo <= MaxImage
    /\ (frame = "events" /\ currentImage = U32(0)) => KeyDown(currentImage) = U32(0)

\* indices of every size: the small ones, 2^16 and the largest uint32_t
SomeIndices == {U32(n) : n \in 0..(MaxImage + 1)} \cup {[hi |-> 1, lo |-> 0], U32Dec(U32(0))}

\* C27: setCurrentImage called with an index that is not below the number
\* of paths leaves the cache and the texture manager as they are: same index,
\* same texture, nothing removed, nothing loaded.  So postSyncPreDraw with
\* currentImage past the last image of an object leaves that object's cache
\* alone, and an index a cache has changed to is below its number of paths.
C27_OutOfRangeIgnored ==
    \A k \in DOMAIN objects :
       LET c == objects[k]
       IN /\ \A idx \in SomeIndices :
                ~U32Less(idx, Len(c.paths)) =>
                   setCurrentImage(c, textureManager, idx) = [cache |-> c, tm |-> textureManager]
          /\ c.currentImage # U32(0) => U32Less(c.currentImage, Len(c.paths))
          /\ (frame = "synced" /\ ~U32Less(currentImage, Len(c.paths))) =>
                SetAll(objects, textureManager, currentImage, 1).objects[k] = c

\* playback has run past the last image of an object with two images, which
\* still shows its second image, while an object with three images went on
\* to its third
C27_Witness ==
    /\ frame = "events" /\ playingImages
    /\ Len(objects) = 2
    /\ Len(objects[1].paths) = 2 /\ Len(objects[2].paths) = 3
    /\ currentImage = U32(2)
    /\ objects[1].currentImage = U32(1) /\ objects[1].texture > 0
    /\ objects[2].currentImage = U32(2)
    /\ [id |-> objects[1].texture, path |-> ImagePath(1, 2)] \in textureManager.live

\* C28: an ImageCache holds at most one live texture.  Every live texture is
\* the current texture of the cache that loaded it; a call with the index
\* that is current removes nothing and loads nothing; a call that changes
\* the image removes the texture held before and loads exactly one.
C28_OneLiveTexture ==
    /\ \A t \in textureManager.live : objects[t.path[1]].texture = t.id
    /\ \A k \in DOMAIN objects :
          LET c == objects[k]
          IN /\ Cardinality({t \in textureManager.live : t.path[1] = k}) <= 1
             /\ setCurrentImage(c, textureManager, c.currentImage)
                   = [cache |-> c, tm |-> textureManager]
             /\ \A idx \in SomeIndices :
                   (U32Less(idx, Len(c.paths)) /\ idx # c.currentImage) =>
                      LET r == setCurrentImage(c, textureManager, idx)
                      IN /\ r.tm.next = textureManager.next + 1
                         /\ Cardinality({t \in r.tm.live : t.path[1] = k}) = 1
                         /\ \A t \in r.tm.live : t.id # c.texture

\* a cache that has loaded three textures one after the other: the third is
\* alive, the first two are gone
C28_Witness ==
    /\ Len(objects) = 1
    /\ objects[1].texture = 3
    /\ textureManager.next = 4
    /\ textureManager.live = {[id |-> 3, path |-> loadedImage(objects[1])]}

====
